---- MODULE Spec2Model ----
(***************************************************************************)
(* A model of PromptEngineeringPlayground (src/src/prompt_playground.py):  *)
(* the eight technique operations, the cost estimator, the comparison      *)
(* runner, the template library and the demonstration recorder.            *)
(*                                                                         *)
(* Strings are TLA+ strings (TLC concatenates them with \o and reads their *)
(* characters with SubSeq).  Money is an integer number of micro-dollars   *)
(* (1e-6 USD), the resolution calculate_cost rounds to.                    *)
(***************************************************************************)
EXTENDS Integers, Sequences, FiniteSets, TLC

VARIABLES
    op,      \* the call: the operation's name, its arguments and outs, the
             \* outcomes the backend has in store for the call's requests
    ret,     \* what the call gave its caller: a returned value or a raised
             \* exception (pending while the call has not run)
    log,     \* the backend exchanges of the call, in order: <<request, outcome>>, ...
    files,   \* the file system: path -> what is there, a directory or the
             \* content of a file (a record, or the cut text of one)
    nDemo    \* run_demonstration calls made so far (bounds the model)

vars == <<op, ret, log, files, nDemo>>

-----------------------------------------------------------------------------
(* Bounds of the model.                                                    *)

MaxTokens == 24     \* calculate_cost is applied to 0..MaxTokens (and to one million)
MaxSamples == 3     \* self_consistency_prompting is called with num_samples up to this
MaxList == 2        \* compare_techniques is called with lists up to this length
MaxDemos == 2       \* run_demonstration calls in one behaviour

-----------------------------------------------------------------------------
(* Values.                                                                 *)

Pending == [kind |-> "pending"]
Return(v) == [kind |-> "return", val |-> v]
Raise(e) == [kind |-> "raise", exc |-> e]

NoneVal == [t |-> "None"]
StrVal(s) == [t |-> "str", v |-> s]
IntVal(n) == [t |-> "int", v |-> n]
ListVal(l) == [t |-> "list", v |-> l]
\* a bytes object, v what str() makes of it
BytesVal(s) == [t |-> "bytes", v |-> "b'" \o s \o "'"]

RECURSIVE SumSeq(_)
SumSeq(s) == IF s = <<>> THEN 0 ELSE Head(s) + SumSeq(Tail(s))

Max(a, b) == IF a >= b THEN a ELSE b

-----------------------------------------------------------------------------
(* The completion backend: every request either yields a response with a   *)
(* generated text and a usage count, or raises, or yields a response the   *)
(* operation cannot read (no choices), which raises inside the operation.  *)

Contents == {"rA", "rB"}
Usages == {3, 5}
BackendErrors == {"timeout"}

Outcomes ==
    [kind : {"ok"}, content : Contents, usage : Usages]
        \cup [kind : {"raise"}, err : BackendErrors]
        \cup [kind : {"nochoice"}]

Succeeded(out) == out.kind = "ok"

\* str(e) of the exception the try block catches
ErrorText(out) ==
    IF out.kind = "raise" THEN out.err ELSE "list index out of range"

Message(role, content) == [role |-> role, content |-> content]

Request(messages, temperature) ==
    [model |-> "gpt-3.5-turbo", messages |-> messages, temperature |-> temperature]

-----------------------------------------------------------------------------
(* Cost Estimator.                                                         *)

\* the price table, in cents per million tokens (0.50 USD = 50)
pricing ==
    [m \in {"gpt-3.5-turbo", "gpt-4", "gpt-4-turbo"} |->
        CASE m = "gpt-3.5-turbo" -> [input |-> 50, output |-> 150]
          [] m = "gpt-4" -> [input |-> 3000, output |-> 6000]
          [] m = "gpt-4-turbo" -> [input |-> 1000, output |-> 3000]]

\* the fallback rate, 1.00 USD per million tokens, in cents
DefaultRateCents == 100

\* whole + num/den rounded to the nearest integer, ties to even (Python's
\* round), for den > 0
RoundHalfEven(whole, num, den) ==
    LET q == whole + (num \div den)
        r == num % den
    IN  IF 2 * r < den THEN q
        ELSE IF 2 * r > den THEN q + 1
        ELSE IF q % 2 = 0 THEN q ELSE q + 1

\* round(cost, 6) of a cost of whole + num/den micro-dollars
Round6(whole, num, den) == RoundHalfEven(whole, num, den)

\* the lookup without the fallback branch's own rate: an unknown model is
\* charged as gpt-4
TwiceAvgPriceNoDefault(model) ==
    IF model \in DOMAIN pricing
        THEN pricing[model].input + pricing[model].output
        ELSE pricing["gpt-4"].input + pricing["gpt-4"].output

\* the input price alone instead of the average of input and output
TwiceInputPrice(model) ==
    IF model \in DOMAIN pricing
        THEN 2 * pricing[model].input
        ELSE 2 * DefaultRateCents

\* twice the average price, in cents per million tokens
TwiceAvgPrice(model) ==
    IF model \in DOMAIN pricing
        THEN pricing[model].input + pricing[model].output
        ELSE 2 * DefaultRateCents

\* (tokens / 1_000_000) * avg_price dollars is tokens * TwiceAvgPrice / 200
\* micro-dollars, rounded to 6 decimals of a dollar.  The product is taken
\* in two parts, tokens = 200 * (tokens \div 200) + tokens % 200, to stay
\* within TLC's integers.
calculate_cost(tokens, model) ==
    Round6((tokens \div 200) * TwiceAvgPrice(model),
           (tokens % 200) * TwiceAvgPrice(model), 200)

-----------------------------------------------------------------------------
(* Technique Operations.  Each gets the caller's arguments and outs, the   *)
(* outcomes the backend will give to the requests in the order they are    *)
(* issued, and yields what it returns (ret) and the exchanges it made      *)
(* (log).                                                                  *)

\* the Result of the success path: text, usage and its cost
OkResult(out) ==
    [response |-> out.content, tokens |-> out.usage,
     cost |-> calculate_cost(out.usage, "gpt-3.5-turbo")]

\* the Result of an except branch
ErrorResult(label, out) ==
    [response |-> "Error in " \o label \o ": " \o ErrorText(out),
     tokens |-> 0, cost |-> 0]

\* the except branch missing: a failure of the request reaches the caller
SingleRequestPropagates(label, messages, out) ==
    [ret |-> IF Succeeded(out) THEN Return(OkResult(out)) ELSE Raise(ErrorText(out)),
     log |-> << <<Request(messages, "default"), out>> >>]

\* a request that failed is made once more
SingleRequestRetries(label, messages, out) ==
    [ret |-> Return(IF Succeeded(out) THEN OkResult(out) ELSE ErrorResult(label, out)),
     log |-> IF Succeeded(out)
                THEN << <<Request(messages, "default"), out>> >>
                ELSE << <<Request(messages, "default"), out>>,
                        <<Request(messages, "default"), out>> >>]

\* one request and the Result made from its outcome
SingleRequest(label, messages, out) ==
    [ret |-> Return(IF Succeeded(out) THEN OkResult(out) ELSE ErrorResult(label, out)),
     log |-> << <<Request(messages, "default"), out>> >>]

zero_shot_prompting(prompt, outs) ==
    SingleRequest("zero-shot prompting",
        << Message("system", "You are a helpful assistant."),
           Message("user", prompt) >>,
        outs[1])

\* the examples used when the caller gives none
DefaultExamples ==
    << [input |-> "Translate to French: Hello", output |-> "Bonjour"],
       [input |-> "Translate to French: Goodbye", output |-> "Au revoir"] >>

\* the user/assistant message pair of every example, in order
RECURSIVE ExampleMessages(_)
ExampleMessages(examples) ==
    IF examples = <<>> THEN <<>>
    ELSE << Message("user", Head(examples).input),
            Message("assistant", Head(examples).output) >>
            \o ExampleMessages(Tail(examples))

\* an example without an "input" or "output" key
Malformed(example) == {"input", "output"} \ DOMAIN example # {}

few_shot_prompting(prompt, examples, outs) ==
    LET ex == IF examples = NoneVal THEN DefaultExamples ELSE examples.v
    IN  IF \E i \in 1..Len(ex) : Malformed(ex[i])
            \* example["input"] / example["output"] is read outside the try block
            THEN [ret |-> Raise("KeyError"), log |-> <<>>]
            ELSE SingleRequest("few-shot prompting",
                    << Message("system", "You are a helpful translation assistant.") >>
                        \o ExampleMessages(ex)
                        \o << Message("user", prompt) >>,
                    outs[1])

chain_of_thought_prompting(problem, outs) ==
    LET prompt == "Let's solve this problem step by step:\n        " \o problem
            \o "\n\n        Break down your reasoning into clear, logical steps:"
            \o "\n        1. First, identify the key components of the problem."
            \o "\n        2. Then, outline the approach to solve it."
            \o "\n        3. Show the detailed calculation or reasoning."
            \o "\n        4. Provide the final solution.\n        "
    IN  SingleRequest("chain-of-thought prompting",
            << Message("system", "You are an expert problem solver who explains reasoning clearly."),
               Message("user", prompt) >>,
            outs[1])

\* the system message does not take up the role
role_playing_prompting_fixed_system(role, task, outs) ==
    LET prompt == "\n        You are a " \o role \o ".\n        Task: " \o task
            \o "\n\n        Please respond as if you were truly in this role, using appropriate language,"
            \o "\n        expertise, and perspective of the assigned persona.\n        "
    IN  SingleRequest("role-playing prompting",
            << Message("system", "You are a helpful assistant."),
               Message("user", prompt) >>,
            outs[1])

role_playing_prompting(role, task, outs) ==
    LET prompt == "\n        You are a " \o role \o ".\n        Task: " \o task
            \o "\n\n        Please respond as if you were truly in this role, using appropriate language,"
            \o "\n        expertise, and perspective of the assigned persona.\n        "
    IN  SingleRequest("role-playing prompting",
            << Message("system", "You are a " \o role \o "."),
               Message("user", prompt) >>,
            outs[1])

persona_based_prompting(persona, query, outs) ==
    LET prompt == "\n        You are a " \o persona
            \o ".\n        Consider your unique background, knowledge, and communication style."
            \o "\n\n        Respond to the following query:\n        " \o query
            \o "\n\n        Ensure your response reflects the specific perspective of this persona."
            \o "\n        "
    IN  SingleRequest("persona-based prompting",
            << Message("system", "You are a " \o persona),
               Message("user", prompt) >>,
            outs[1])

react_prompting(task, outs) ==
    LET prompt == "\n        Task: " \o task
            \o "\n\n        Use the ReAct framework to solve this task:"
            \o "\n        1. Thought: What do I need to think about?"
            \o "\n        2. Action: What action should I take?"
            \o "\n        3. Observation: What did I observe?"
            \o "\n        4. (Repeat as needed)"
            \o "\n        5. Answer: Final solution"
            \o "\n\n        Format your response with clear Thought, Action, and Observation steps."
            \o "\n        "
    IN  SingleRequest("ReAct prompting",
            << Message("system", "You are an AI assistant that uses the ReAct framework (Reasoning + Acting) to solve problems step by step."),
               Message("user", prompt) >>,
            outs[1])

tree_of_thoughts_prompting(problem, outs) ==
    LET prompt == "\n        Problem: " \o problem
            \o "\n\n        Use Tree-of-Thoughts approach:"
            \o "\n        1. Generate 3 initial solution approaches"
            \o "\n        2. For each approach, evaluate its strengths and weaknesses"
            \o "\n        3. Select the most promising approach"
            \o "\n        4. Develop that approach with detailed steps"
            \o "\n        5. Provide the final solution"
            \o "\n\n        Format your response clearly showing:"
            \o "\n        - Initial Branches (3 approaches)"
            \o "\n        - Evaluation of each branch"
            \o "\n        - Selected branch with reasoning"
            \o "\n        - Detailed solution\n        "
    IN  SingleRequest("Tree-of-Thoughts prompting",
            << Message("system", "You are an expert at exploring multiple solution paths and selecting the best approach."),
               Message("user", prompt) >>,
            outs[1])

\* the messages of every self-consistency request
SelfConsistencyMessages(problem) ==
    << Message("system", "You are an expert problem solver. Think step by step and show your reasoning."),
       Message("user", "\n        Solve this problem and explain your reasoning:\n        "
            \o problem \o "\n\n        Show your step-by-step thinking process.\n        ") >>

\* the "--- Path i ---" sections of responses[i..], in order
RECURSIVE PathSections(_, _)
PathSections(responses, i) ==
    IF i > Len(responses) THEN ""
    ELSE "--- Path " \o ToString(i) \o " ---\n" \o responses[i] \o "\n\n"
            \o PathSections(responses, i + 1)

\* the loop that stops at num_samples - 1 requests
RECURSIVE SampleLoopOneShort(_, _, _, _, _, _)
SampleLoopOneShort(i, problem, num_samples, outs, responses, lg) ==
    IF i >= num_samples - 1
        THEN [failed |-> FALSE, responses |-> responses, log |-> lg]
    ELSE LET out == outs[i + 1]
             lg2 == Append(lg, <<Request(SelfConsistencyMessages(problem), "0.7"), out>>)
         IN  IF ~Succeeded(out)
                THEN [failed |-> TRUE, responses |-> responses, log |-> lg2]
                ELSE SampleLoopOneShort(i + 1, problem, num_samples, outs,
                                        Append(responses, out), lg2)

\* for i in range(num_samples): one request per round; a failure leaves the loop
RECURSIVE SampleLoop(_, _, _, _, _, _)
SampleLoop(i, problem, num_samples, outs, responses, lg) ==
    IF i >= num_samples
        THEN [failed |-> FALSE, responses |-> responses, log |-> lg]
    ELSE LET out == outs[i + 1]
             lg2 == Append(lg, <<Request(SelfConsistencyMessages(problem), "0.7"), out>>)
         IN  IF ~Succeeded(out)
                THEN [failed |-> TRUE, responses |-> responses, log |-> lg2]
                ELSE SampleLoop(i + 1, problem, num_samples, outs,
                                Append(responses, out), lg2)

\* the Result made of the responses once the loop is through
AggregatedResult(num_samples, responses) ==
    LET total_tokens == SumSeq([i \in 1..Len(responses) |-> responses[i].usage])
        texts == [i \in 1..Len(responses) |-> responses[i].content]
        aggregated == "Self-Consistency Analysis (" \o ToString(num_samples)
            \o " reasoning paths):\n\n" \o PathSections(texts, 1)
            \o "\n--- Consensus ---\nMultiple reasoning paths generated. Review the different approaches above."
    IN  [response |-> aggregated, tokens |-> total_tokens,
         cost |-> calculate_cost(total_tokens, "gpt-3.5-turbo"),
         num_paths |-> num_samples]

self_consistency_prompting(problem, num_samples, outs) ==
    LET run == SampleLoop(0, problem, num_samples, outs, <<>>, <<>>)
    IN  IF run.failed
            THEN [ret |-> Return(ErrorResult("self-consistency prompting",
                                             run.log[Len(run.log)][2])),
                  log |-> run.log]
            ELSE [ret |-> Return(AggregatedResult(num_samples, run.responses)),
                  log |-> run.log]

-----------------------------------------------------------------------------
(* Technique Dispatcher and Comparison Runner.                             *)

\* the keys of self.prompting_techniques
prompting_techniques ==
    {"Zero-Shot Prompting", "Few-Shot Prompting", "Chain-of-Thought Prompting",
     "Role-Playing Prompting", "Persona-Based Prompting", "ReAct Prompting",
     "Self-Consistency Prompting", "Tree-of-Thoughts Prompting"}

\* the list compare_techniques uses when it is given none
DefaultComparison ==
    <<"Zero-Shot Prompting", "Few-Shot Prompting", "Chain-of-Thought Prompting">>

EmptyDict == [k \in {} |-> NoneVal]

\* d[k] = v of a Python dict
DictSet(d, k, v) == [x \in DOMAIN d \cup {k} |-> IF x = k THEN v ELSE d[x]]

\* the chain without the persona branch
ComparisonCallNoPersona(technique, prompt, out) ==
    CASE technique = "Zero-Shot Prompting" ->
            zero_shot_prompting(prompt, <<out>>)
      [] technique = "Few-Shot Prompting" ->
            few_shot_prompting("Translate to French: " \o prompt, NoneVal, <<out>>)
      [] technique = "Chain-of-Thought Prompting" ->
            chain_of_thought_prompting(prompt, <<out>>)
      [] technique = "Role-Playing Prompting" ->
            role_playing_prompting("expert consultant", prompt, <<out>>)
      [] OTHER ->
            [ret |-> Return([response |-> "Not implemented for comparison",
                             tokens |-> 0, cost |-> 0]),
             log |-> <<>>]

\* the if/elif chain: the operation called for one technique, given the
\* outcome its request will get
ComparisonCall(technique, prompt, out) ==
    CASE technique = "Zero-Shot Prompting" ->
            zero_shot_prompting(prompt, <<out>>)
      [] technique = "Few-Shot Prompting" ->
            few_shot_prompting("Translate to French: " \o prompt, NoneVal, <<out>>)
      [] technique = "Chain-of-Thought Prompting" ->
            chain_of_thought_prompting(prompt, <<out>>)
      [] technique = "Role-Playing Prompting" ->
            role_playing_prompting("expert consultant", prompt, <<out>>)
      [] technique = "Persona-Based Prompting" ->
            persona_based_prompting("experienced professional", prompt, <<out>>)
      [] OTHER ->
            [ret |-> Return([response |-> "Not implemented for comparison",
                             tokens |-> 0, cost |-> 0]),
             log |-> <<>>]

\* the loop leaving at the first name that is not registered (break for
\* continue)
RECURSIVE CompareLoopBreaks(_, _, _, _, _, _, _, _)
CompareLoopBreaks(prompt, techniques, i, outs, results, total_tokens, total_cost, lg) ==
    IF i > Len(techniques)
        THEN [results |-> results, total_tokens |-> total_tokens,
              total_cost |-> total_cost, log |-> lg]
    ELSE LET technique == techniques[i]
         IN  IF technique \notin prompting_techniques
                THEN [results |-> DictSet(results, technique, [error |-> "Technique not found"]),
                      total_tokens |-> total_tokens, total_cost |-> total_cost, log |-> lg]
                ELSE LET r == ComparisonCall(technique, prompt, outs[Len(lg) + 1])
                     IN  CompareLoopBreaks(prompt, techniques, i + 1, outs,
                            DictSet(results, technique, r.ret.val),
                            total_tokens + r.ret.val.tokens,
                            total_cost + r.ret.val.cost, lg \o r.log)

\* the loop over the requested names, from the i-th on
RECURSIVE CompareLoop(_, _, _, _, _, _, _, _)
CompareLoop(prompt, techniques, i, outs, results, total_tokens, total_cost, lg) ==
    IF i > Len(techniques)
        THEN [results |-> results, total_tokens |-> total_tokens,
              total_cost |-> total_cost, log |-> lg]
    ELSE LET technique == techniques[i]
         IN  IF technique \notin prompting_techniques
                THEN CompareLoop(prompt, techniques, i + 1, outs,
                        DictSet(results, technique, [error |-> "Technique not found"]),
                        total_tokens, total_cost, lg)
                ELSE LET r == ComparisonCall(technique, prompt, outs[Len(lg) + 1])
                     IN  IF r.ret.kind = "raise"
                            THEN CompareLoop(prompt, techniques, i + 1, outs,
                                    DictSet(results, technique, [error |-> r.ret.exc]),
                                    total_tokens, total_cost, lg \o r.log)
                            ELSE CompareLoop(prompt, techniques, i + 1, outs,
                                    DictSet(results, technique, r.ret.val),
                                    total_tokens + r.ret.val.tokens,
                                    total_cost + r.ret.val.cost, lg \o r.log)

\* techniques is NoneVal or ListVal(<<name, ...>>)
\* techniques_compared taken from the results instead of the list
compare_techniques_counts_entries(prompt, techniques, outs) ==
    LET names == IF techniques = NoneVal THEN DefaultComparison ELSE techniques.v
        run == CompareLoop(prompt, names, 1, outs, EmptyDict, 0, 0, <<>>)
    IN  [ret |-> Return([prompt |-> prompt,
                         techniques_compared |-> Cardinality(DOMAIN run.results),
                         results |-> run.results,
                         total_tokens |-> run.total_tokens,
                         total_cost |-> Round6(run.total_cost, 0, 1)]),
         log |-> run.log]

compare_techniques(prompt, techniques, outs) ==
    LET names == IF techniques = NoneVal THEN DefaultComparison ELSE techniques.v
        run == CompareLoop(prompt, names, 1, outs, EmptyDict, 0, 0, <<>>)
    IN  [ret |-> Return([prompt |-> prompt,
                         techniques_compared |-> Len(names),
                         results |-> run.results,
                         total_tokens |-> run.total_tokens,
                         total_cost |-> Round6(run.total_cost, 0, 1)]),
         log |-> run.log]

-----------------------------------------------------------------------------
(* Template Library.                                                       *)

get_prompt_templates ==
    ( "Translation" :>
        ( "Simple" :> "Translate the following text to {language}: {text}"
       @@ "Formal" :> "Provide a formal translation of this text to {language}, maintaining professional tone: {text}"
       @@ "Context" :> "Translate this {context} text to {language}: {text}" ) )
 @@ ( "Summarization" :>
        ( "Brief" :> "Summarize this in 2-3 sentences: {text}"
       @@ "Bullet Points" :> "Summarize the key points as a bullet list: {text}"
       @@ "Executive" :> "Provide an executive summary highlighting main insights: {text}" ) )
 @@ ( "Code" :>
        ( "Explain" :> "Explain what this code does in simple terms: {code}"
       @@ "Debug" :> "Find and explain the bug in this code: {code}"
       @@ "Optimize" :> "Suggest optimizations for this code: {code}"
       @@ "Convert" :> "Convert this code from {from_lang} to {to_lang}: {code}" ) )
 @@ ( "Creative Writing" :>
        ( "Story" :> "Write a {length} story about {topic} in the style of {style}"
       @@ "Poem" :> "Write a {type} poem about {topic}"
       @@ "Dialogue" :> "Write a dialogue between {character1} and {character2} about {topic}" ) )
 @@ ( "Analysis" :>
        ( "Pros and Cons" :> "Analyze the pros and cons of {topic}"
       @@ "Compare" :> "Compare and contrast {item1} and {item2}"
       @@ "SWOT" :> "Perform a SWOT analysis of {topic}" ) )
 @@ ( "Business" :>
        ( "Email" :> "Write a {tone} email about {topic} to {recipient}"
       @@ "Proposal" :> "Draft a business proposal for {project}"
       @@ "Report" :> "Create an executive report on {topic}" ) )

Char(s, i) == SubSeq(s, i, i)

\* the least j >= i with s[j] = c, or 0
IndexFrom(s, c, i) ==
    LET at == {j \in i..Len(s) : Char(s, j) = c}
    IN  IF at = {} THEN 0 ELSE CHOOSE j \in at : \A k \in at : j <= k

\* the position of the first brace of s from i on, or 0
NextBrace(s, i) ==
    LET open == IndexFrom(s, "{", i)
        close == IndexFrom(s, "}", i)
    IN  IF open = 0 THEN close
        ELSE IF close = 0 THEN open
        ELSE IF open < close THEN open ELSE close

\* a replacement field whose key is absent is left as it stands and the
\* scan goes on
RECURSIVE FormatSkipMissing(_, _, _, _)
FormatSkipMissing(s, i, kwargs, acc) ==
    LET b == NextBrace(s, i)
    IN  IF b = 0 THEN [kind |-> "ok", s |-> acc \o SubSeq(s, i, Len(s))]
        ELSE LET j == IndexFrom(s, "}", b + 1)
                 name == SubSeq(s, b + 1, j - 1)
                 text == acc \o SubSeq(s, i, b - 1)
             IN  IF name \in DOMAIN kwargs
                    THEN FormatSkipMissing(s, j + 1, kwargs, text \o kwargs[name])
                    ELSE FormatSkipMissing(s, j + 1, kwargs, text \o SubSeq(s, b, j))

\* only the first replacement field is substituted
FormatFirstOnly(s, i, kwargs, acc) ==
    LET b == NextBrace(s, i)
    IN  IF b = 0 THEN [kind |-> "ok", s |-> acc \o SubSeq(s, i, Len(s))]
        ELSE LET j == IndexFrom(s, "}", b + 1)
                 name == SubSeq(s, b + 1, j - 1)
                 text == acc \o SubSeq(s, i, b - 1)
             IN  IF name \in DOMAIN kwargs
                    THEN [kind |-> "ok", s |-> text \o kwargs[name] \o SubSeq(s, j + 1, Len(s))]
                    ELSE [kind |-> "KeyError", key |-> name]

\* str.format(**kwargs) from position i of s on, acc the text made so far:
\* the text up to the next brace is literal, "{{" and "}}" are literal
\* braces, "{name}" is replaced by kwargs[name] and is a KeyError when name
\* is no key; a lone brace is a ValueError
RECURSIVE Format(_, _, _, _)
Format(s, i, kwargs, acc) ==
    LET b == NextBrace(s, i)
    IN  IF b = 0 THEN [kind |-> "ok", s |-> acc \o SubSeq(s, i, Len(s))]
        ELSE LET text == acc \o SubSeq(s, i, b - 1)
                 doubled == b < Len(s) /\ Char(s, b + 1) = Char(s, b)
             IN  IF doubled THEN Format(s, b + 2, kwargs, text \o Char(s, b))
                 ELSE IF Char(s, b) = "}" THEN [kind |-> "ValueError"]
                 ELSE LET j == IndexFrom(s, "}", b + 1)
                          name == SubSeq(s, b + 1, j - 1)
                      IN  IF j = 0 THEN [kind |-> "ValueError"]
                          ELSE IF name \in DOMAIN kwargs
                            THEN Format(s, j + 1, kwargs, text \o kwargs[name])
                            ELSE [kind |-> "KeyError", key |-> name]

\* the template lookup done before the category lookup
LookupTemplateFirst(templates, category, template_name) ==
    IF \A c \in DOMAIN templates : template_name \notin DOMAIN templates[c]
        THEN [found |-> FALSE,
              message |-> "Template '" \o template_name \o "' not found in category '"
                            \o category \o "'"]
    ELSE IF category \notin DOMAIN templates
        THEN [found |-> FALSE, message |-> "Category '" \o category \o "' not found"]
    ELSE IF template_name \notin DOMAIN templates[category]
        THEN [found |-> FALSE,
              message |-> "Template '" \o template_name \o "' not found in category '"
                            \o category \o "'"]
    ELSE [found |-> TRUE, template |-> templates[category][template_name]]

\* the two membership tests, the category's first
Lookup(templates, category, template_name) ==
    IF category \notin DOMAIN templates
        THEN [found |-> FALSE, message |-> "Category '" \o category \o "' not found"]
    ELSE IF template_name \notin DOMAIN templates[category]
        THEN [found |-> FALSE,
              message |-> "Template '" \o template_name \o "' not found in category '"
                            \o category \o "'"]
    ELSE [found |-> TRUE, template |-> templates[category][template_name]]

use_template(category, template_name, kwargs) ==
    LET found == Lookup(get_prompt_templates, category, template_name)
    IN  IF ~found.found THEN Return(found.message)
        ELSE LET f == Format(found.template, 1, kwargs, "")
             IN  CASE f.kind = "ok" -> Return(f.s)
                   [] f.kind = "KeyError" -> Return("Missing variable: '" \o f.key \o "'")
                   [] OTHER -> Raise(f.kind)

-----------------------------------------------------------------------------
(* The calls made on the playground.  A behaviour of Spec is one call of   *)
(* an operation that touches no file: the initial state holds the call     *)
(* and the backend's outcomes, and the operation's action runs the whole   *)
(* call.                                                                   *)

OneMillion == 1000000

Prompts == {"Hello", "2+2"}
Roles == {"poet", "chef"}
ExampleInputs ==
    {NoneVal, ListVal(<<>>), ListVal(<< [input |-> "Hi", output |-> "Salut"] >>),
     ListVal(<< [input |-> "Hi"] >>)}
SampleCounts == (-1)..MaxSamples
TokenInputs == 0..MaxTokens \cup {OneMillion}
ModelInputs == DOMAIN pricing \cup {"gpt-4o", "no-such-model"}
ComparisonNames == prompting_techniques \cup {"NoSuchTechnique"}
ComparisonOutcomes ==
    {[kind |-> "ok", content |-> "rA", usage |-> 3],
     [kind |-> "ok", content |-> "rB", usage |-> 5],
     [kind |-> "raise", err |-> "timeout"]}
TemplateValues == {"French", "Hello"}

SeqsUpTo(S, n) == UNION {[1..k -> S] : k \in 0..n}
Range(f) == {f[x] : x \in DOMAIN f}

\* the replacement fields of a format string, in order
RECURSIVE FieldNames(_, _)
FieldNames(s, i) ==
    LET a == IndexFrom(s, "{", i)
        b == IndexFrom(s, "}", a + 1)
    IN  IF a = 0 \/ b = 0 THEN <<>>
        ELSE <<SubSeq(s, a + 1, b - 1)>> \o FieldNames(s, b + 1)

TemplateCategories == DOMAIN get_prompt_templates \cup {"Recipes"}
TemplateNames ==
    UNION {DOMAIN get_prompt_templates[c] : c \in DOMAIN get_prompt_templates}
        \cup {"Haiku"}

\* the keyword names tried with a template: its own fields and one it does
\* not have
KeywordNames(category, template_name) ==
    IF category \in DOMAIN get_prompt_templates
            /\ template_name \in DOMAIN get_prompt_templates[category]
        THEN Range(FieldNames(get_prompt_templates[category][template_name], 1))
                \cup {"extra"}
        ELSE {"text"}

ZeroShotCalls ==
    [name : {"zero_shot_prompting"}, prompt : Prompts, outs : [1..1 -> Outcomes]]
FewShotCalls ==
    [name : {"few_shot_prompting"}, prompt : Prompts, examples : ExampleInputs,
     outs : [1..1 -> Outcomes]]
ChainOfThoughtCalls ==
    [name : {"chain_of_thought_prompting"}, problem : Prompts, outs : [1..1 -> Outcomes]]
RolePlayingCalls ==
    [name : {"role_playing_prompting"}, role : Roles, task : Prompts,
     outs : [1..1 -> Outcomes]]
PersonaBasedCalls ==
    [name : {"persona_based_prompting"}, persona : Roles, query : Prompts,
     outs : [1..1 -> Outcomes]]
ReActCalls ==
    [name : {"react_prompting"}, task : Prompts, outs : [1..1 -> Outcomes]]
SelfConsistencyCalls ==
    UNION {[name : {"self_consistency_prompting"}, problem : Prompts, num_samples : {n},
            outs : [1..Max(n, 0) -> Outcomes]] : n \in SampleCounts}
TreeOfThoughtsCalls ==
    [name : {"tree_of_thoughts_prompting"}, problem : Prompts, outs : [1..1 -> Outcomes]]
CalculateCostCalls ==
    [name : {"calculate_cost"}, tokens : TokenInputs, model : ModelInputs]
CompareTechniquesCalls ==
    UNION {[name : {"compare_techniques"}, prompt : Prompts, techniques : {t},
            outs : [1..(IF t = NoneVal THEN Len(DefaultComparison) ELSE Len(t.v))
                        -> ComparisonOutcomes]]
           : t \in {NoneVal} \cup {ListVal(l) : l \in SeqsUpTo(ComparisonNames, MaxList)}}
UseTemplateCalls ==
    UNION {[name : {"use_template"}, category : {c}, template_name : {n},
            kwargs : UNION {[given -> TemplateValues] : given \in SUBSET KeywordNames(c, n)}]
           : c \in TemplateCategories, n \in TemplateNames}

Init ==
    /\ op \in ZeroShotCalls \cup FewShotCalls \cup ChainOfThoughtCalls
            \cup RolePlayingCalls \cup PersonaBasedCalls \cup ReActCalls
            \cup SelfConsistencyCalls \cup TreeOfThoughtsCalls
            \cup CalculateCostCalls \cup CompareTechniquesCalls \cup UseTemplateCalls
    /\ ret = Pending
    /\ log = <<>>
    /\ files = EmptyDict
    /\ nDemo = 0

ZeroShot ==
    /\ op.name = "zero_shot_prompting" /\ ret = Pending
    /\ LET r == zero_shot_prompting(op.prompt, op.outs)
       IN  ret' = r.ret /\ log' = r.log
    /\ UNCHANGED <<op, files, nDemo>>

FewShot ==
    /\ op.name = "few_shot_prompting" /\ ret = Pending
    /\ LET r == few_shot_prompting(op.prompt, op.examples, op.outs)
       IN  ret' = r.ret /\ log' = r.log
    /\ UNCHANGED <<op, files, nDemo>>

ChainOfThought ==
    /\ op.name = "chain_of_thought_prompting" /\ ret = Pending
    /\ LET r == chain_of_thought_prompting(op.problem, op.outs)
       IN  ret' = r.ret /\ log' = r.log
    /\ UNCHANGED <<op, files, nDemo>>

RolePlaying ==
    /\ op.name = "role_playing_prompting" /\ ret = Pending
    /\ LET r == role_playing_prompting(op.role, op.task, op.outs)
       IN  ret' = r.ret /\ log' = r.log
    /\ UNCHANGED <<op, files, nDemo>>

PersonaBased ==
    /\ op.name = "persona_based_prompting" /\ ret = Pending
    /\ LET r == persona_based_prompting(op.persona, op.query, op.outs)
       IN  ret' = r.ret /\ log' = r.log
    /\ UNCHANGED <<op, files, nDemo>>

ReAct ==
    /\ op.name = "react_prompting" /\ ret = Pending
    /\ LET r == react_prompting(op.task, op.outs)
       IN  ret' = r.ret /\ log' = r.log
    /\ UNCHANGED <<op, files, nDemo>>

SelfConsistency ==
    /\ op.name = "self_consistency_prompting" /\ ret = Pending
    /\ LET r == self_consistency_prompting(op.problem, op.num_samples, op.outs)
       IN  ret' = r.ret /\ log' = r.log
    /\ UNCHANGED <<op, files, nDemo>>

TreeOfThoughts ==
    /\ op.name = "tree_of_thoughts_prompting" /\ ret = Pending
    /\ LET r == tree_of_thoughts_prompting(op.problem, op.outs)
       IN  ret' = r.ret /\ log' = r.log
    /\ UNCHANGED <<op, files, nDemo>>

CalculateCost ==
    /\ op.name = "calculate_cost" /\ ret = Pending
    /\ ret' = Return(calculate_cost(op.tokens, op.model))
    /\ UNCHANGED <<op, log, files, nDemo>>

CompareTechniques ==
    /\ op.name = "compare_techniques" /\ ret = Pending
    /\ LET r == compare_techniques(op.prompt, op.techniques, op.outs)
       IN  ret' = r.ret /\ log' = r.log
    /\ UNCHANGED <<op, files, nDemo>>

UseTemplate ==
    /\ op.name = "use_template" /\ ret = Pending
    /\ ret' = use_template(op.category, op.template_name, op.kwargs)
    /\ UNCHANGED <<op, log, files, nDemo>>

Next ==
    \/ ZeroShot
    \/ FewShot
    \/ ChainOfThought
    \/ RolePlaying
    \/ PersonaBased
    \/ ReAct
    \/ SelfConsistency
    \/ TreeOfThoughts
    \/ CalculateCost
    \/ CompareTechniques
    \/ UseTemplate

Spec == Init /\ [][Next]_vars

-----------------------------------------------------------------------------
(* The sampling loop of self_consistency_prompting, one round at a time.   *)
(* A behaviour of SpecSamples is one call: while it runs, ret holds the    *)
(* loop's position, the number of rounds done and the responses read.      *)

Running(i, responses) == [kind |-> "running", i |-> i, responses |-> responses]

\* the round goes on to the next although its request failed
SampleRoundContinues(problem, i, responses, out) ==
    [exchange |-> <<Request(SelfConsistencyMessages(problem), "0.7"), out>>,
     ret |-> IF Succeeded(out)
                THEN Running(i + 1, Append(responses, out))
                ELSE Running(i + 1, responses)]

\* one round of the loop: the request, then either the response is kept or
\* the except branch returns
SampleRound(problem, i, responses, out) ==
    [exchange |-> <<Request(SelfConsistencyMessages(problem), "0.7"), out>>,
     ret |-> IF Succeeded(out)
                THEN Running(i + 1, Append(responses, out))
                ELSE Return(ErrorResult("self-consistency prompting", out))]

InitSamples ==
    /\ op \in SelfConsistencyCalls
    /\ ret = Running(0, <<>>)
    /\ log = <<>>
    /\ files = EmptyDict
    /\ nDemo = 0

SampleRequest ==
    /\ ret.kind = "running"
    /\ ret.i < op.num_samples
    /\ LET r == SampleRound(op.problem, ret.i, ret.responses, op.outs[ret.i + 1])
       IN  /\ log' = Append(log, r.exchange)
           /\ ret' = r.ret
    /\ UNCHANGED <<op, files, nDemo>>

SampleReturn ==
    /\ ret.kind = "running"
    /\ ret.i >= op.num_samples
    /\ ret' = Return(AggregatedResult(op.num_samples, ret.responses))
    /\ UNCHANGED <<op, log, files, nDemo>>

NextSamples ==
    \/ SampleRequest
    \/ SampleReturn

SpecSamples == InitSamples /\ [][NextSamples]_vars

-----------------------------------------------------------------------------
(* Demonstration Recorder.  A behaviour of SpecDemo is a sequence of       *)
(* run_demonstration calls on one playground, one after another.           *)

\* num_samples when the caller gives none
DefaultNumSamples == 3

\* the lower-case letter of every upper-case letter
LowerCase ==
    ("A" :> "a") @@ ("B" :> "b") @@ ("C" :> "c") @@ ("D" :> "d") @@ ("E" :> "e")
 @@ ("F" :> "f") @@ ("G" :> "g") @@ ("H" :> "h") @@ ("I" :> "i") @@ ("J" :> "j")
 @@ ("K" :> "k") @@ ("L" :> "l") @@ ("M" :> "m") @@ ("N" :> "n") @@ ("O" :> "o")
 @@ ("P" :> "p") @@ ("Q" :> "q") @@ ("R" :> "r") @@ ("S" :> "s") @@ ("T" :> "t")
 @@ ("U" :> "u") @@ ("V" :> "v") @@ ("W" :> "w") @@ ("X" :> "x") @@ ("Y" :> "y")
 @@ ("Z" :> "z")

\* str.lower()
RECURSIVE Lower(_)
Lower(s) ==
    IF Len(s) = 0 THEN ""
    ELSE IF Len(s) = 1 THEN (IF s \in DOMAIN LowerCase THEN LowerCase[s] ELSE s)
    ELSE Lower(SubSeq(s, 1, Len(s) \div 2)) \o Lower(SubSeq(s, Len(s) \div 2 + 1, Len(s)))

\* s.replace(a, b) for a single character a
RECURSIVE ReplaceChar(_, _, _)
ReplaceChar(s, a, b) ==
    IF Len(s) = 0 THEN ""
    ELSE IF Len(s) = 1 THEN (IF s = a THEN b ELSE s)
    ELSE ReplaceChar(SubSeq(s, 1, Len(s) \div 2), a, b)
            \o ReplaceChar(SubSeq(s, Len(s) \div 2 + 1, Len(s)), a, b)

\* the output directory
OutputDir == "outputs"

Directory == [dir |-> TRUE]

\* os.makedirs(path, exist_ok=True)
makedirs(fs, path) ==
    IF path \in DOMAIN fs THEN fs ELSE (path :> Directory) @@ fs

\* the name is used as it is written
FilenameAsGiven(technique) ==
    "outputs/" \o technique \o "_demo.json"

\* one path for every technique
FilenameShared(technique) == "outputs/demo.json"

\* the path of a technique's record
Filename(technique) ==
    "outputs/" \o ReplaceChar(Lower(technique), " ", "_") \o "_demo.json"

\* Filename of every registered technique, computed once
RecordPath == [t \in prompting_techniques |-> Filename(t)] @@ EmptyDict

\* the parameters of each registered operation
Signature(technique) ==
    CASE technique = "Zero-Shot Prompting" ->
            [required |-> {"prompt"}, optional |-> {}]
      [] technique = "Few-Shot Prompting" ->
            [required |-> {"prompt"}, optional |-> {"examples"}]
      [] technique = "Chain-of-Thought Prompting" ->
            [required |-> {"problem"}, optional |-> {}]
      [] technique = "Role-Playing Prompting" ->
            [required |-> {"role", "task"}, optional |-> {}]
      [] technique = "Persona-Based Prompting" ->
            [required |-> {"persona", "query"}, optional |-> {}]
      [] technique = "ReAct Prompting" ->
            [required |-> {"task"}, optional |-> {}]
      [] technique = "Self-Consistency Prompting" ->
            [required |-> {"problem"}, optional |-> {"num_samples"}]
      [] technique = "Tree-of-Thoughts Prompting" ->
            [required |-> {"problem"}, optional |-> {}]

\* whether the call operation(**kwargs) binds: every required parameter is
\* given and no other name than a parameter's
Accepts(technique, kwargs) ==
    /\ Signature(technique).required \subseteq DOMAIN kwargs
    /\ DOMAIN kwargs \subseteq
            Signature(technique).required \cup Signature(technique).optional

\* self.prompting_techniques[technique](**kwargs)
Dispatch(technique, kwargs, outs) ==
    CASE technique = "Zero-Shot Prompting" ->
            zero_shot_prompting(kwargs["prompt"].v, outs)
      [] technique = "Few-Shot Prompting" ->
            few_shot_prompting(kwargs["prompt"].v,
                IF "examples" \in DOMAIN kwargs THEN kwargs["examples"] ELSE NoneVal,
                outs)
      [] technique = "Chain-of-Thought Prompting" ->
            chain_of_thought_prompting(kwargs["problem"].v, outs)
      [] technique = "Role-Playing Prompting" ->
            role_playing_prompting(kwargs["role"].v, kwargs["task"].v, outs)
      [] technique = "Persona-Based Prompting" ->
            persona_based_prompting(kwargs["persona"].v, kwargs["query"].v, outs)
      [] technique = "ReAct Prompting" ->
            react_prompting(kwargs["task"].v, outs)
      [] technique = "Self-Consistency Prompting" ->
            self_consistency_prompting(kwargs["problem"].v,
                IF "num_samples" \in DOMAIN kwargs THEN kwargs["num_samples"].v
                                                   ELSE DefaultNumSamples,
                outs)
      [] technique = "Tree-of-Thoughts Prompting" ->
            tree_of_thoughts_prompting(kwargs["problem"].v, outs)

\* whether json can encode the value
Serializable(v) == v.t # "bytes"

\* what the file holds when json.dump raised: the text of the record up to
\* the value that json cannot encode
CutText(demo_data) == [cut |-> TRUE, technique |-> demo_data.technique]

\* with open(filename, 'w') as f: json.dump(demo_data, f, indent=2): open
\* needs the directory and empties the file, json.dump writes the text piece
\* by piece and raises TypeError at a value it cannot encode
Save(fs, filename, demo_data) ==
    IF OutputDir \notin DOMAIN fs
        THEN [raised |-> "FileNotFoundError", files |-> fs]
    ELSE IF \E k \in DOMAIN demo_data.input : ~Serializable(demo_data.input[k])
        THEN [raised |-> "TypeError", files |-> DictSet(fs, filename, CutText(demo_data))]
    ELSE [raised |-> "", files |-> DictSet(fs, filename, demo_data)]

\* the record is saved whatever the name: an unknown technique's error is
\* written to its path too
run_demonstration_saves_error(technique, kwargs, outs, fs) ==
    IF technique \notin prompting_techniques
        THEN LET err == [error |-> "Technique " \o technique \o " not found"]
             IN  [ret |-> Return(err), log |-> <<>>,
                  files |-> DictSet(fs, Filename(technique), err)]
    ELSE IF ~Accepts(technique, kwargs)
        THEN [ret |-> Raise("TypeError"), log |-> <<>>, files |-> fs]
    ELSE LET r == Dispatch(technique, kwargs, outs)
             demo_data == [technique |-> technique, input |-> kwargs,
                           output |-> r.ret.val]
             saved == Save(fs, RecordPath[technique], demo_data)
         IN  IF r.ret.kind = "raise"
                THEN [ret |-> r.ret, log |-> r.log, files |-> fs]
             ELSE IF saved.raised # ""
                THEN [ret |-> Raise(saved.raised), log |-> r.log, files |-> saved.files]
             ELSE [ret |-> Return(demo_data), log |-> r.log, files |-> saved.files]

\* the record is saved before the keyword arguments are bound
run_demonstration_saves_first(technique, kwargs, outs, fs) ==
    IF technique \notin prompting_techniques
        THEN [ret |-> Return([error |-> "Technique " \o technique \o " not found"]),
              log |-> <<>>, files |-> fs]
    ELSE IF ~Accepts(technique, kwargs)
        THEN [ret |-> Raise("TypeError"), log |-> <<>>,
              files |-> DictSet(fs, RecordPath[technique],
                            [technique |-> technique, input |-> kwargs,
                             output |-> NoneVal])]
    ELSE LET r == Dispatch(technique, kwargs, outs)
             demo_data == [technique |-> technique, input |-> kwargs,
                           output |-> r.ret.val]
             saved == Save(fs, RecordPath[technique], demo_data)
         IN  IF r.ret.kind = "raise"
                THEN [ret |-> r.ret, log |-> r.log, files |-> fs]
             ELSE IF saved.raised # ""
                THEN [ret |-> Raise(saved.raised), log |-> r.log, files |-> saved.files]
             ELSE [ret |-> Return(demo_data), log |-> r.log, files |-> saved.files]

\* fs is the file system before the call; files is what it holds after
run_demonstration(technique, kwargs, outs, fs) ==
    IF technique \notin prompting_techniques
        THEN [ret |-> Return([error |-> "Technique " \o technique \o " not found"]),
              log |-> <<>>, files |-> fs]
    ELSE IF ~Accepts(technique, kwargs)
        \* the call of the operation raises TypeError before its body runs
        THEN [ret |-> Raise("TypeError"), log |-> <<>>, files |-> fs]
    ELSE LET r == Dispatch(technique, kwargs, outs)
             demo_data == [technique |-> technique, input |-> kwargs,
                           output |-> r.ret.val]
             saved == Save(fs, RecordPath[technique], demo_data)
         IN  IF r.ret.kind = "raise"
                THEN [ret |-> r.ret, log |-> r.log, files |-> fs]
             ELSE IF saved.raised # ""
                THEN [ret |-> Raise(saved.raised), log |-> r.log, files |-> saved.files]
             ELSE [ret |-> Return(demo_data), log |-> r.log, files |-> saved.files]

DemoTechniques == prompting_techniques \cup {"NoSuchTechnique"}
DemoPrompts == {StrVal(p) : p \in Prompts} \cup {BytesVal("Hello")}
DemoOutcomes ==
    {[kind |-> "ok", content |-> "rA", usage |-> 3],
     [kind |-> "raise", err |-> "timeout"]}

\* keyword arguments the operation binds
ValidKwargs(technique) ==
    CASE technique = "Zero-Shot Prompting" -> [{"prompt"} -> DemoPrompts]
      [] technique = "Few-Shot Prompting" ->
            [{"prompt"} -> DemoPrompts]
                \cup {("prompt" :> StrVal("Hello")) @@ ("examples" :> e) :
                        e \in ExampleInputs \ {NoneVal}}
      [] technique = "Chain-of-Thought Prompting" -> [{"problem"} -> DemoPrompts]
      [] technique = "Role-Playing Prompting" ->
            {("role" :> StrVal(r)) @@ ("task" :> p) : r \in Roles, p \in DemoPrompts}
      [] technique = "Persona-Based Prompting" ->
            {("persona" :> StrVal(r)) @@ ("query" :> p) : r \in Roles, p \in DemoPrompts}
      [] technique = "ReAct Prompting" -> [{"task"} -> DemoPrompts]
      [] technique = "Self-Consistency Prompting" ->
            [{"problem"} -> DemoPrompts]
                \cup {("problem" :> p) @@ ("num_samples" :> IntVal(1)) : p \in DemoPrompts}
      [] technique = "Tree-of-Thoughts Prompting" -> [{"problem"} -> DemoPrompts]
      [] OTHER -> [{"prompt"} -> DemoPrompts]

\* the keyword arguments tried: those that bind, none at all, and the
\* required ones with one name no operation has
DemoKwargs(technique) ==
    ValidKwargs(technique) \cup {EmptyDict}
        \cup {kw @@ ("bogus" :> StrVal("x")) :
                kw \in [Signature(IF technique \in prompting_techniques
                                    THEN technique ELSE "Zero-Shot Prompting").required
                            -> {StrVal("Hello")}]}

\* the requests the call can come to make
DemoRequests(technique, kwargs) ==
    IF technique = "Self-Consistency Prompting"
        THEN IF "num_samples" \in DOMAIN kwargs
                THEN Max(kwargs["num_samples"].v, 1) ELSE DefaultNumSamples
        ELSE 1

\* the playground has been constructed, where the output directory was
\* there already or was not
InitDemo ==
    /\ op = [name |-> "__init__"]
    /\ ret = Return(NoneVal)
    /\ log = <<>>
    /\ \E before \in {EmptyDict, OutputDir :> Directory} :
            files = makedirs(before, OutputDir)
    /\ nDemo = 0

RunDemonstration ==
    /\ nDemo < MaxDemos
    /\ \E technique \in DemoTechniques :
        \E kwargs \in DemoKwargs(technique) :
            \E outs \in [1..DemoRequests(technique, kwargs) -> DemoOutcomes] :
                LET r == run_demonstration(technique, kwargs, outs, files)
                IN  /\ op' = [name |-> "run_demonstration", technique |-> technique,
                              kwargs |-> kwargs, outs |-> outs]
                    /\ ret' = r.ret
                    /\ log' = r.log
                    /\ files' = r.files
    /\ nDemo' = nDemo + 1

NextDemo == RunDemonstration

SpecDemo == InitDemo /\ [][NextDemo]_vars

-----------------------------------------------------------------------------
(* Two callers in run_demonstration at once.  In SpecRace op, ret are       *)
(* per caller, ret holding the caller's position: called, built (the       *)
(* record is made), open (the file is open, pos pieces written), done.  A  *)
(* file is the sequence of the text pieces it holds.                       *)

Callers == {1, 2}

\* what a file holds where nothing was written below a later write
Hole == [hole |-> TRUE]

\* the text json.dump writes, in pieces: the technique, every input in turn,
\* the output
RECURSIVE InputPieces(_, _)
InputPieces(kwargs, keys) ==
    IF keys = {} THEN <<>>
    ELSE LET k == CHOOSE x \in keys : \A y \in keys : Len(x) >= Len(y)
         IN  << [input |-> k, value |-> kwargs[k]] >> \o InputPieces(kwargs, keys \ {k})

JsonText(demo_data) ==
    << [technique |-> demo_data.technique] >>
        \o InputPieces(demo_data.input, DOMAIN demo_data.input)
        \o << [output |-> demo_data.output] >>

\* the file content after chunk is written at offset pos
WriteAt(content, pos, chunk) ==
    [i \in 1..Max(Len(content), pos + Len(chunk)) |->
        IF i > pos /\ i <= pos + Len(chunk) THEN chunk[i - pos]
        ELSE IF i <= Len(content) THEN content[i]
        ELSE Hole]

RaceTechniques == {"Zero-Shot Prompting", "Few-Shot Prompting"}

RaceKwargs(technique) ==
    IF technique = "Zero-Shot Prompting"
        THEN [{"prompt"} -> {StrVal("Hello"), StrVal("2+2")}]
        ELSE {"prompt" :> StrVal("Hello"),
              ("prompt" :> StrVal("Hello"))
                @@ ("examples" :> ListVal(<< [input |-> "Hi", output |-> "Salut"] >>))}

RaceCalls ==
    UNION {[technique : {t}, kwargs : RaceKwargs(t), outs : [1..1 -> DemoOutcomes]]
           : t \in RaceTechniques}

InitRace ==
    /\ op \in [Callers -> RaceCalls]
    /\ ret = [p \in Callers |-> [pc |-> "called"]]
    /\ log = <<>>
    /\ files = makedirs(EmptyDict, OutputDir)
    /\ nDemo = 0

\* lines 534-547: the operation is run and the record is made
Build(p) ==
    /\ ret[p].pc = "called"
    /\ LET r == Dispatch(op[p].technique, op[p].kwargs, op[p].outs)
           demo_data == [technique |-> op[p].technique, input |-> op[p].kwargs,
                         output |-> r.ret.val]
       IN  /\ ret' = [ret EXCEPT ![p] = [pc |-> "built", demo_data |-> demo_data]]
           /\ log' = log \o r.log
    /\ UNCHANGED <<op, files, nDemo>>

\* open(filename, 'w'): the file is created or emptied; no lock is taken
Open(p) ==
    /\ ret[p].pc = "built"
    /\ files' = DictSet(files, RecordPath[op[p].technique], <<>>)
    /\ ret' = [ret EXCEPT ![p] = [pc |-> "open", demo_data |-> ret[p].demo_data,
                                  pos |-> 0]]
    /\ UNCHANGED <<op, log, nDemo>>

\* the buffered text reaches the file in one or in several writes, each at
\* the caller's own offset
Write(p) ==
    /\ ret[p].pc = "open"
    /\ LET text == JsonText(ret[p].demo_data)
           path == RecordPath[op[p].technique]
       IN  /\ ret[p].pos < Len(text)
           /\ \E n \in 1..(Len(text) - ret[p].pos) :
                /\ files' = DictSet(files, path,
                                WriteAt(files[path], ret[p].pos,
                                        SubSeq(text, ret[p].pos + 1, ret[p].pos + n)))
                /\ ret' = [ret EXCEPT ![p].pos = ret[p].pos + n]
    /\ UNCHANGED <<op, log, nDemo>>

\* the with block is left and the record returned
Close(p) ==
    /\ ret[p].pc = "open"
    /\ ret[p].pos = Len(JsonText(ret[p].demo_data))
    /\ ret' = [ret EXCEPT ![p] = [pc |-> "done", demo_data |-> ret[p].demo_data]]
    /\ UNCHANGED <<op, log, files, nDemo>>

NextRace ==
    \E p \in Callers :
        \/ Build(p)
        \/ Open(p)
        \/ Write(p)
        \/ Close(p)

SpecRace == InitRace /\ [][NextRace]_vars

-----------------------------------------------------------------------------
(* Properties.                                                             *)

StartsWith(s, prefix) ==
    Len(s) >= Len(prefix) /\ SubSeq(s, 1, Len(prefix)) = prefix

Contains(s, sub) ==
    \E i \in 1..(Len(s) - Len(sub) + 1) : SubSeq(s, i, i + Len(sub) - 1) = sub

\* the usage the backend reported in the exchanges of lg
UsageSum(lg) ==
    SumSeq([i \in 1..Len(lg) |-> IF Succeeded(lg[i][2]) THEN lg[i][2].usage ELSE 0])

\* how each technique operation is named in its error message
TechniqueLabel ==
    ("zero_shot_prompting" :> "zero-shot prompting")
 @@ ("few_shot_prompting" :> "few-shot prompting")
 @@ ("chain_of_thought_prompting" :> "chain-of-thought prompting")
 @@ ("role_playing_prompting" :> "role-playing prompting")
 @@ ("persona_based_prompting" :> "persona-based prompting")
 @@ ("react_prompting" :> "ReAct prompting")
 @@ ("self_consistency_prompting" :> "self-consistency prompting")
 @@ ("tree_of_thoughts_prompting" :> "Tree-of-Thoughts prompting")

Returned == ret # Pending

\* C1: when a request of a technique operation fails, the operation does
\* not raise: it returns a Result whose text is an error message naming the
\* technique, with token count 0 and cost 0.
C1_FailureGivesErrorResult ==
    (/\ op.name \in DOMAIN TechniqueLabel
     /\ Returned
     /\ \E i \in 1..Len(log) : ~Succeeded(log[i][2]))
    => /\ ret.kind = "return"
       /\ StartsWith(ret.val.response, "Error in " \o TechniqueLabel[op.name] \o ": ")
       /\ ret.val.tokens = 0
       /\ ret.val.cost = 0

\* a self-consistency call whose third request fails after two that succeeded
C1_Witness ==
    /\ op.name = "self_consistency_prompting"
    /\ Returned
    /\ Len(log) = 3
    /\ Succeeded(log[1][2]) /\ Succeeded(log[2][2]) /\ ~Succeeded(log[3][2])
    /\ ret = Return([response |-> "Error in self-consistency prompting: timeout",
                     tokens |-> 0, cost |-> 0])

IsSelfConsistencyCall == op.name = "self_consistency_prompting" /\ Returned

\* C2 as stated: a call with num_samples = n issues exactly n requests and
\* returns a Result whose token count is the sum of the usage counts and
\* whose num_paths is n.
C2_Original ==
    IsSelfConsistencyCall
    => /\ Len(log) = op.num_samples
       /\ ret.kind = "return"
       /\ ret.val.tokens = UsageSum(log)
       /\ "num_paths" \in DOMAIN ret.val
       /\ ret.val.num_paths = op.num_samples

\* C2, amended: for n >= 0, when every one of the n requests succeeds the
\* call issues exactly n requests and returns token count = the sum of the n
\* usage counts and num_paths = n; when the k-th request is the first to
\* fail, exactly k requests are issued and the error Result (token count 0,
\* no num_paths) is returned.
C2_SamplesAndTokenSum ==
    (IsSelfConsistencyCall /\ op.num_samples >= 0)
    => LET n == op.num_samples
       IN  /\ Len(log) <= n
           /\ \A i \in 1..Len(log) : log[i][2] = op.outs[i]
           /\ ret.kind = "return"
           /\ IF \A i \in 1..n : Succeeded(op.outs[i])
                THEN /\ Len(log) = n
                     /\ ret.val.tokens = SumSeq([i \in 1..n |-> op.outs[i].usage])
                     /\ "num_paths" \in DOMAIN ret.val
                     /\ ret.val.num_paths = n
                ELSE /\ Len(log) >= 1
                     /\ ~Succeeded(op.outs[Len(log)])
                     /\ \A i \in 1..(Len(log) - 1) : Succeeded(op.outs[i])
                     /\ ret.val.tokens = 0
                     /\ "num_paths" \notin DOMAIN ret.val

\* three requests that succeed, with usage 3, 5 and 3
C2_Witness ==
    /\ IsSelfConsistencyCall
    /\ op.num_samples = 3
    /\ Len(log) = 3
    /\ <<log[1][2].kind, log[2][2].kind, log[3][2].kind>> = <<"ok", "ok", "ok">>
    /\ <<log[1][2].usage, log[2][2].usage, log[3][2].usage>> = <<3, 5, 3>>
    /\ ret.val.tokens = 11
    /\ ret.val.num_paths = 3

\* C3: run_demonstration with a name that is not registered returns the
\* "not found" error and has no side effect: no backend request is made and
\* no record file is created or changed.
C3_UnknownTechniqueNoEffect ==
    [][(/\ nDemo' = nDemo + 1
        /\ op'.technique \notin prompting_techniques)
       => /\ ret' = Return([error |-> "Technique " \o op'.technique \o " not found"])
          /\ log' = <<>>
          /\ files' = files]_vars

\* an unknown name called when a record is already stored
C3_Witness ==
    /\ op.name = "run_demonstration"
    /\ op.technique = "NoSuchTechnique"
    /\ ret = Return([error |-> "Technique NoSuchTechnique not found"])
    /\ \E t \in prompting_techniques : RecordPath[t] \in DOMAIN files

IsComparison == op.name = "compare_techniques" /\ Returned

\* the names a comparison was asked for
Requested ==
    IF op.techniques = NoneVal
        THEN <<"Zero-Shot Prompting", "Few-Shot Prompting", "Chain-of-Thought Prompting">>
        ELSE op.techniques.v

\* the techniques the comparison runner has a branch for
Comparable ==
    {"Zero-Shot Prompting", "Few-Shot Prompting", "Chain-of-Thought Prompting",
     "Role-Playing Prompting", "Persona-Based Prompting"}

NoDuplicates(seq) == \A i, j \in DOMAIN seq : seq[i] = seq[j] => i = j

RECURSIVE SumOver(_, _)
SumOver(S, f) ==
    IF S = {} THEN 0
    ELSE LET x == CHOOSE y \in S : TRUE IN f[x] + SumOver(S \ {x}, f)

\* C4: a comparison over registered and unregistered names returns one
\* entry per requested name; an unregistered name gets the error entry,
\* the registered names, also those after it, get a Result, and the totals
\* are those of the techniques that ran (an error entry adds nothing).
C4_UnknownNamesIsolated ==
    IsComparison
    => LET res == ret.val
       IN  /\ ret.kind = "return"
           /\ DOMAIN res.results = Range(Requested)
           /\ \A n \in Range(Requested) :
                IF n \in prompting_techniques
                    THEN DOMAIN res.results[n] = {"response", "tokens", "cost"}
                    ELSE res.results[n] = [error |-> "Technique not found"]
           /\ Len(log) = Cardinality({i \in DOMAIN Requested : Requested[i] \in Comparable})
           /\ res.total_tokens = UsageSum(log)
           /\ res.total_cost = UsageSum(log)
           /\ NoDuplicates(Requested) =>
                LET ran == Range(Requested) \cap prompting_techniques
                IN  /\ res.total_tokens = SumOver(ran, [n \in ran |-> res.results[n].tokens])
                    /\ res.total_cost = SumOver(ran, [n \in ran |-> res.results[n].cost])

\* an unregistered name first, then Zero-Shot, whose request succeeds
C4_Witness ==
    /\ IsComparison
    /\ op.techniques = ListVal(<<"NoSuchTechnique", "Zero-Shot Prompting">>)
    /\ ret.val.results["NoSuchTechnique"] = [error |-> "Technique not found"]
    /\ ret.val.results["Zero-Shot Prompting"].tokens = 5
    /\ ret.val.total_tokens = 5
    /\ ret.val.total_cost = 5

\* the system message of each technique's request in a comparison
ComparisonSystemText ==
    ("Zero-Shot Prompting" :> "You are a helpful assistant.")
 @@ ("Few-Shot Prompting" :> "You are a helpful translation assistant.")
 @@ ("Chain-of-Thought Prompting" :>
        "You are an expert problem solver who explains reasoning clearly.")
 @@ ("Role-Playing Prompting" :> "You are a expert consultant.")
 @@ ("Persona-Based Prompting" :> "You are a experienced professional")
 @@ ("ReAct Prompting" :>
        "You are an AI assistant that uses the ReAct framework (Reasoning + Acting) to solve problems step by step.")
 @@ ("Self-Consistency Prompting" :>
        "You are an expert problem solver. Think step by step and show your reasoning.")
 @@ ("Tree-of-Thoughts Prompting" :>
        "You are an expert at exploring multiple solution paths and selecting the best approach.")

\* a request of the technique's operation that carries the shared prompt
IsRequestFor(technique, prompt, request) ==
    LET m == request.messages
    IN  /\ m[1] = Message("system", ComparisonSystemText[technique])
        /\ m[Len(m)].role = "user"
        /\ Contains(m[Len(m)].content, prompt)

\* C5 as stated: every requested name that is registered has its operation
\* invoked with the shared prompt, so the backend gets a request for it; with
\* no list given this is done for exactly the three defaults.
C5_Original ==
    IsComparison
    => /\ \A n \in Range(Requested) \cap prompting_techniques :
            \E j \in 1..Len(log) : IsRequestFor(n, op.prompt, log[j][1])
       /\ op.techniques = NoneVal =>
            /\ DOMAIN ret.val.results =
                {"Zero-Shot Prompting", "Few-Shot Prompting", "Chain-of-Thought Prompting"}
            /\ Len(log) = 3

\* C5, amended: the operation is invoked with the shared prompt for every
\* requested name among Zero-Shot, Few-Shot, Chain-of-Thought, Role-Playing
\* and Persona-Based, one request per occurrence and in the order of the
\* list; for ReAct, Self-Consistency and Tree-of-Thoughts no operation is
\* invoked and no request is made: the entry is the fixed "Not implemented
\* for comparison" Result with 0 tokens and 0 cost.  With no list given the
\* three defaults are run.
C5_ComparableTechniquesInvoked ==
    IsComparison
    => LET ran == SelectSeq(Requested, LAMBDA n : n \in Comparable)
       IN  /\ Len(log) = Len(ran)
           /\ \A j \in 1..Len(ran) : IsRequestFor(ran[j], op.prompt, log[j][1])
           /\ \A n \in (Range(Requested) \cap prompting_techniques) \ Comparable :
                /\ ret.val.results[n] =
                        [response |-> "Not implemented for comparison",
                         tokens |-> 0, cost |-> 0]
                /\ ~\E j \in 1..Len(log) : IsRequestFor(n, op.prompt, log[j][1])
           /\ op.techniques = NoneVal =>
                /\ DOMAIN ret.val.results =
                    {"Zero-Shot Prompting", "Few-Shot Prompting",
                     "Chain-of-Thought Prompting"}
                /\ Len(log) = 3

\* ReAct and Persona-Based requested: one request, Persona-Based's
C5_Witness ==
    /\ IsComparison
    /\ op.techniques = ListVal(<<"ReAct Prompting", "Persona-Based Prompting">>)
    /\ Len(log) = 1
    /\ IsRequestFor("Persona-Based Prompting", op.prompt, log[1][1])
    /\ ret.val.results["ReAct Prompting"].response = "Not implemented for comparison"

IsCostCall == op.name = "calculate_cost" /\ Returned

\* the average of a model's input and output rates, in dollars per million
\* tokens, which is micro-dollars per token
AverageRate == ("gpt-3.5-turbo" :> 1) @@ ("gpt-4" :> 45) @@ ("gpt-4-turbo" :> 20)

\* C6: for a token count t >= 0 and a model of the price table the cost is
\* t times the average of the model's two rates (in micro-dollars: linear in
\* t, and the same for the same arguments), never negative, 0 for t = 0 and
\* 1.0 for a million tokens of gpt-3.5-turbo.
C6_CostLinearInTokens ==
    (IsCostCall /\ op.tokens >= 0 /\ op.model \in DOMAIN AverageRate)
    => /\ ret = Return(op.tokens * AverageRate[op.model])
       /\ ret.val >= 0
       /\ op.tokens = 0 => ret.val = 0
       /\ (op.tokens = 1000000 /\ op.model = "gpt-3.5-turbo") => ret.val = 1000000

\* a million tokens of gpt-3.5-turbo cost 1.000000
C6_Witness ==
    /\ IsCostCall
    /\ op.tokens = 1000000
    /\ op.model = "gpt-3.5-turbo"
    /\ ret = Return(1000000)

\* C7: for a model that is no key of the price table the call does not
\* raise and charges 1.00 per million tokens, whichever the model given.
C7_UnknownModelDefaultRate ==
    (IsCostCall /\ op.model \notin {"gpt-3.5-turbo", "gpt-4", "gpt-4-turbo"})
    => ret = Return(op.tokens)

\* a million tokens of a model the table does not have cost 1.000000
C7_Witness ==
    /\ IsCostCall
    /\ op.tokens = 1000000
    /\ op.model = "no-such-model"
    /\ ret = Return(1000000)

IsTemplateCall == op.name = "use_template" /\ Returned

InCatalog ==
    /\ op.category \in DOMAIN get_prompt_templates
    /\ op.template_name \in DOMAIN get_prompt_templates[op.category]

Template == get_prompt_templates[op.category][op.template_name]

\* the position of the first occurrence of sub in s, or 0
FirstAt(s, sub) ==
    LET at == {i \in 1..(Len(s) - Len(sub) + 1) : SubSeq(s, i, i + Len(sub) - 1) = sub}
    IN  IF at = {} THEN 0 ELSE CHOOSE i \in at : \A k \in at : i <= k

HasBrace(s) == FirstAt(s, "{") # 0 \/ FirstAt(s, "}") # 0

Marker(p) == "{" \o p \o "}"

\* the names p whose marker {p} stands in the template t
Placeholders(t) ==
    {SubSeq(t, i + 1, j - 1) :
        <<i, j>> \in {<<a, b>> \in (1..Len(t)) \X (1..Len(t)) :
                        /\ a < b
                        /\ Char(t, a) = "{"
                        /\ Char(t, b) = "}"
                        /\ ~HasBrace(SubSeq(t, a + 1, b - 1))}}

RECURSIVE ReplaceAll(_, _, _)
ReplaceAll(s, sub, new) ==
    LET k == FirstAt(s, sub)
    IN  IF k = 0 THEN s
        ELSE SubSeq(s, 1, k - 1) \o new
                \o ReplaceAll(SubSeq(s, k + Len(sub), Len(s)), sub, new)

\* t with the marker of every name of names replaced by the name's value
RECURSIVE Substituted(_, _, _)
Substituted(t, values, names) ==
    IF names = {} THEN t
    ELSE LET p == CHOOSE q \in names : TRUE
         IN  Substituted(ReplaceAll(t, Marker(p), values[p]), values, names \ {p})

\* C8: for a template of the catalog and a value for each of its
\* placeholders, use_template returns the template with every placeholder
\* replaced by its value, and no marker remains in the returned string; the
\* Translation/Simple template with language French and text Hello gives
\* "Translate the following text to French: Hello".
C8_AllPlaceholdersFilled ==
    (IsTemplateCall /\ InCatalog /\ Placeholders(Template) \subseteq DOMAIN op.kwargs)
    => /\ ret = Return(Substituted(Template, op.kwargs, Placeholders(Template)))
       /\ ~HasBrace(ret.val)
       /\ \A p \in Placeholders(Template) : FirstAt(ret.val, Marker(p)) = 0
       /\ (/\ op.category = "Translation"
           /\ op.template_name = "Simple"
           /\ op.kwargs = [language |-> "French", text |-> "Hello"])
          => ret.val = "Translate the following text to French: Hello"

\* the spec's example call
C8_Witness ==
    /\ IsTemplateCall
    /\ op.category = "Translation"
    /\ op.template_name = "Simple"
    /\ op.kwargs = [language |-> "French", text |-> "Hello"]
    /\ ret = Return("Translate the following text to French: Hello")

\* the placeholders of the template that were given no value
Omitted == Placeholders(Template) \ DOMAIN op.kwargs

\* C9: for a template of the catalog called with a placeholder omitted,
\* use_template yields the missing-variable failure naming an omitted
\* placeholder (the omitted one that stands first in the template; p itself
\* when only p is omitted), never a partially substituted string; so a fill
\* either replaces every placeholder or names a missing one.
C9_MissingPlaceholderNamed ==
    (IsTemplateCall /\ InCatalog)
    => /\ ret.kind = "return"
       /\ IF Omitted = {}
            THEN ret.val = Substituted(Template, op.kwargs, Placeholders(Template))
            ELSE \E p \in Omitted :
                    /\ ret.val = "Missing variable: '" \o p \o "'"
                    /\ \A q \in Omitted :
                            FirstAt(Template, Marker(p)) <= FirstAt(Template, Marker(q))

\* Translation/Simple with the text given and the language omitted
C9_Witness ==
    /\ IsTemplateCall
    /\ op.category = "Translation"
    /\ op.template_name = "Simple"
    /\ op.kwargs = [text |-> "Hello"]
    /\ ret = Return("Missing variable: 'language'")

CategoryMessage == "Category '" \o op.category \o "' not found"

TemplateMessage ==
    "Template '" \o op.template_name \o "' not found in category '" \o op.category \o "'"

\* C10 as stated: an absent category is the typed failure CategoryNotFound,
\* a name absent from a category that exists is the typed failure
\* TemplateNotFound, the category's check first; the failure is not a string
\* handed back as the filled template is.
C10_Original ==
    (IsTemplateCall /\ ~InCatalog)
    => /\ ret.kind = "raise"
       /\ ret.exc = IF op.category \notin DOMAIN get_prompt_templates
                        THEN "CategoryNotFound" ELSE "TemplateNotFound"

\* C10, amended: use_template does not raise for an absent key: it returns,
\* as the string a filled template would be, the message "Category '<c>'
\* not found" when the category is not in the catalog (also when the name is
\* in no category) and "Template '<n>' not found in category '<c>'" when
\* the category exists without the name.  The two messages differ, and no
\* fill of a catalog template returns a string that starts as they do: the
\* text is all that tells a failure from a filled string.
C10_LookupFailureMessages ==
    IsTemplateCall
    => /\ ret.kind = "return"
       /\ op.category \notin DOMAIN get_prompt_templates => ret.val = CategoryMessage
       /\ (/\ op.category \in DOMAIN get_prompt_templates
           /\ op.template_name \notin DOMAIN get_prompt_templates[op.category])
          => ret.val = TemplateMessage
       /\ CategoryMessage # TemplateMessage
       /\ InCatalog => /\ ~StartsWith(ret.val, "Category '")
                       /\ ~StartsWith(ret.val, "Template '")
                       /\ ~StartsWith(Template, "{")

\* neither the category nor the name is in the catalog
C10_Witness ==
    /\ IsTemplateCall
    /\ op.category = "Recipes"
    /\ op.template_name = "Haiku"
    /\ ret = Return("Category 'Recipes' not found")

IsDemoStep == nDemo' = nDemo + 1

\* the technique's name in lower case with "_" for every space
DerivedName ==
    ("Zero-Shot Prompting" :> "zero-shot_prompting")
 @@ ("Few-Shot Prompting" :> "few-shot_prompting")
 @@ ("Chain-of-Thought Prompting" :> "chain-of-thought_prompting")
 @@ ("Role-Playing Prompting" :> "role-playing_prompting")
 @@ ("Persona-Based Prompting" :> "persona-based_prompting")
 @@ ("ReAct Prompting" :> "react_prompting")
 @@ ("Self-Consistency Prompting" :> "self-consistency_prompting")
 @@ ("Tree-of-Thoughts Prompting" :> "tree-of-thoughts_prompting")

\* a call for a registered technique that returned its record
ReturnsRecord ==
    /\ IsDemoStep
    /\ op'.technique \in DOMAIN DerivedName
    /\ ret'.kind = "return"

\* C11 as stated: the record of a registered technique is written to the
\* path made of the output directory, the name in lower case with
\* underscores for spaces, and the suffix ".json"; the directory exists at
\* the time of the write.
C11_Original ==
    [][ReturnsRecord
       => /\ OutputDir \in DOMAIN files
          /\ files' = DictSet(files,
                        "outputs/" \o DerivedName[op'.technique] \o ".json", ret'.val)]_vars

\* C11, amended: the record of a registered technique is written to the
\* path made of the output directory "outputs", the name in lower case with
\* underscores for spaces, and the fixed suffix "_demo.json"; the directory,
\* created if absent when the playground is constructed, exists at the time
\* of the write.
C11_RecordPathDerived ==
    [][ReturnsRecord
       => /\ OutputDir \in DOMAIN files
          /\ files[OutputDir] = Directory
          /\ files' = DictSet(files,
                        "outputs/" \o DerivedName[op'.technique] \o "_demo.json",
                        ret'.val)]_vars

\* the record of Tree-of-Thoughts Prompting is stored under its path
C11_Witness ==
    /\ op.name = "run_demonstration"
    /\ op.technique = "Tree-of-Thoughts Prompting"
    /\ ret.kind = "return"
    /\ "outputs" \in DOMAIN files
    /\ "outputs/tree-of-thoughts_prompting_demo.json" \in DOMAIN files
    /\ files["outputs/tree-of-thoughts_prompting_demo.json"] = ret.val

\* what is stored for technique t in the file system fs: nothing, or the
\* content of the file at t's path
Stored(fs, t) ==
    LET path == "outputs/" \o DerivedName[t] \o "_demo.json"
    IN  IF path \in DOMAIN fs THEN <<fs[path]>> ELSE <<>>

\* C12: along any sequence of run_demonstration calls, what is stored for
\* a technique T is the record {technique, input, output} returned by the
\* most recent call for T that returned one: a call for T that returns a
\* record stores exactly that record in the place of the earlier one, any
\* other call leaves what is stored for T as it was, and a call for T never
\* changes what is stored for another technique.
C12_LatestRecordStored ==
    [][IsDemoStep
       => \A t \in DOMAIN DerivedName :
            IF t = op'.technique /\ ret'.kind = "return"
                THEN /\ Stored(files', t) = <<ret'.val>>
                     /\ DOMAIN ret'.val = {"technique", "input", "output"}
                     /\ ret'.val.technique = t
                     /\ ret'.val.input = op'.kwargs
                ELSE Stored(files', t) = Stored(files, t)]_vars

\* C13: a call for a registered technique with keyword arguments its
\* operation does not accept (a required one missing, or one it does not
\* have) raises the operation's argument failure, TypeError, to the caller;
\* no backend request is made and no record is written or changed.
C13_InvalidArgumentsPassThrough ==
    [][(/\ IsDemoStep
        /\ op'.technique \in DOMAIN DerivedName
        /\ \/ ~(Signature(op'.technique).required \subseteq DOMAIN op'.kwargs)
           \/ \E k \in DOMAIN op'.kwargs :
                k \notin Signature(op'.technique).required
                            \cup Signature(op'.technique).optional)
       => /\ ret' = Raise("TypeError")
          /\ log' = <<>>
          /\ files' = files]_vars

\* Role-Playing called with a keyword it does not have, after a record of it
\* was stored
C13_Witness ==
    /\ op.name = "run_demonstration"
    /\ op.technique = "Role-Playing Prompting"
    /\ "bogus" \in DOMAIN op.kwargs
    /\ ret = Raise("TypeError")
    /\ log = <<>>
    /\ Stored(files, "Role-Playing Prompting") # <<>>

\* the technique operations that make one request
SingleRequestOperations == DOMAIN TechniqueLabel \ {"self_consistency_prompting"}

IsSingleRequestCall == op.name \in SingleRequestOperations /\ Returned

\* C14 as stated: every call of a technique operation other than
\* self-consistency issues exactly one backend request.
C14_Original ==
    IsSingleRequestCall => Len(log) = 1

\* a few-shot call one of whose examples lacks its input or its output
HasMalformedExample ==
    /\ op.name = "few_shot_prompting"
    /\ op.examples # NoneVal
    /\ \E i \in 1..Len(op.examples.v) :
            ~({"input", "output"} \subseteq DOMAIN op.examples.v[i])

\* C14, amended: a call of a technique operation other than
\* self-consistency issues exactly one backend request, whether the request
\* succeeds or fails (no retry, no second request), except a few-shot call
\* with an example that lacks "input" or "output", which raises KeyError
\* before any request is issued.
C14_ExactlyOneRequest ==
    IsSingleRequestCall
    => IF HasMalformedExample
            THEN ret = Raise("KeyError") /\ log = <<>>
            ELSE /\ Len(log) = 1
                 /\ log[1][2] = op.outs[1]
                 /\ ret.kind = "return"

\* a zero-shot call whose only request failed
C14_Witness ==
    /\ op.name = "zero_shot_prompting"
    /\ Returned
    /\ Len(log) = 1
    /\ log[1][2] = [kind |-> "raise", err |-> "timeout"]
    /\ ret.val.tokens = 0

IsRequestingCall == op.name \in DOMAIN TechniqueLabel /\ Returned /\ log # <<>>

\* the messages of the call's j-th request
Sent(j) == log[j][1].messages

\* the system text of the operations that have a fixed one
FixedSystemText ==
    ("zero_shot_prompting" :> "You are a helpful assistant.")
 @@ ("few_shot_prompting" :> "You are a helpful translation assistant.")
 @@ ("chain_of_thought_prompting" :>
        "You are an expert problem solver who explains reasoning clearly.")
 @@ ("react_prompting" :>
        "You are an AI assistant that uses the ReAct framework (Reasoning + Acting) to solve problems step by step.")
 @@ ("self_consistency_prompting" :>
        "You are an expert problem solver. Think step by step and show your reasoning.")
 @@ ("tree_of_thoughts_prompting" :>
        "You are an expert at exploring multiple solution paths and selecting the best approach.")

\* the caller's text the last user message is built from
MainInput ==
    CASE op.name \in {"zero_shot_prompting", "few_shot_prompting"} -> op.prompt
      [] op.name \in {"role_playing_prompting", "react_prompting"} -> op.task
      [] op.name = "persona_based_prompting" -> op.query
      [] OTHER -> op.problem

\* the system text of the call made with the role or persona r instead
SystemTextWith(r) ==
    IF op.name = "role_playing_prompting"
        THEN role_playing_prompting(r, op.task, op.outs).log[1][1].messages[1].content
        ELSE persona_based_prompting(r, op.query, op.outs).log[1][1].messages[1].content

\* C15 as stated: the messages sent are one system message, whose text is
\* fixed for the technique and the same whatever the caller's input, and
\* after it only user messages built from the caller's input.
C15_Original ==
    IsRequestingCall
    => \A j \in 1..Len(log) :
        /\ Sent(j)[1].role = "system"
        /\ op.name \in DOMAIN FixedSystemText
                => Sent(j)[1].content = FixedSystemText[op.name]
        /\ op.name \notin DOMAIN FixedSystemText
                => \A r \in Roles : SystemTextWith(r) = Sent(j)[1].content
        /\ Len(Sent(j)) >= 2
        /\ \A i \in 2..Len(Sent(j)) : Sent(j)[i].role = "user"

\* the examples a few-shot call uses
ExamplesUsed ==
    IF op.examples = NoneVal
        THEN << [input |-> "Translate to French: Hello", output |-> "Bonjour"],
                [input |-> "Translate to French: Goodbye", output |-> "Au revoir"] >>
        ELSE op.examples.v

\* C15, amended: the messages sent are set by the caller's arguments alone
\* and begin with one system message.  Its text is a fixed string of the
\* technique for zero-shot, few-shot, chain-of-thought, ReAct,
\* self-consistency and tree-of-thoughts, and is built from the caller's
\* input for role-playing ("You are a <role>.") and persona-based ("You are
\* a <persona>").  One user message built from the caller's input ends the
\* sequence; between the two, few-shot alone sends, for each example, a user
\* message with its input and an assistant message with its output.
C15_MessageSequence ==
    IsRequestingCall
    => \A j \in 1..Len(log) :
        LET m == Sent(j)
        IN  /\ m[1].role = "system"
            /\ m[1].content =
                    CASE op.name = "role_playing_prompting" -> "You are a " \o op.role \o "."
                      [] op.name = "persona_based_prompting" -> "You are a " \o op.persona
                      [] OTHER -> FixedSystemText[op.name]
            /\ m[Len(m)].role = "user"
            /\ Contains(m[Len(m)].content, MainInput)
            /\ IF op.name = "few_shot_prompting"
                THEN /\ Len(m) = 2 + 2 * Len(ExamplesUsed)
                     /\ \A k \in 1..Len(ExamplesUsed) :
                            /\ m[2 * k] = Message("user", ExamplesUsed[k].input)
                            /\ m[2 * k + 1] = Message("assistant", ExamplesUsed[k].output)
                     /\ m[Len(m)].content = op.prompt
                ELSE Len(m) = 2
            /\ m = Sent(1)

\* a role-playing call for the role chef
C15_Witness ==
    /\ op.name = "role_playing_prompting"
    /\ Returned
    /\ op.role = "chef"
    /\ Len(log) = 1
    /\ Sent(1)[1] = Message("system", "You are a chef.")
    /\ Len(Sent(1)) = 2
    /\ Sent(1)[2].role = "user"

\* C16: the requests of a self-consistency call are issued one at a time,
\* each after the response to the one before it was read; once a request
\* fails no further request is issued and the call returns the error Result
\* with token count 0 and cost 0, whatever usage the earlier requests
\* reported.
C16_SequentialStopOnFailure ==
    [][/\ Len(log') <= Len(log) + 1
       /\ Len(log') = Len(log) + 1
            => /\ SubSeq(log', 1, Len(log)) = log
               /\ \A i \in 1..Len(log) : Succeeded(log[i][2])
               /\ ret.kind = "running"
               /\ Len(ret.responses) = Len(log)
               /\ Len(log) < op.num_samples
               /\ ~Succeeded(log'[Len(log')][2])
                    => ret' = Return([response |-> "Error in self-consistency prompting: "
                                            \o ErrorText(log'[Len(log')][2]),
                                      tokens |-> 0, cost |-> 0])
       /\ ret.kind = "return" => log' = log /\ ret' = ret]_vars

\* the call has returned what the call taken as a whole returns
SamplesAgree ==
    ret.kind = "return"
    => LET whole == self_consistency_prompting(op.problem, op.num_samples, op.outs)
       IN  ret = whole.ret /\ log = whole.log

\* the third request failed after two that reported usage 3 and 5
C16_Witness ==
    /\ op.num_samples = 3
    /\ Len(log) = 3
    /\ log[1][2].kind = "ok" /\ log[1][2].usage = 3
    /\ log[2][2].kind = "ok" /\ log[2][2].usage = 5
    /\ log[3][2] = [kind |-> "raise", err |-> "timeout"]
    /\ ret = Return([response |-> "Error in self-consistency prompting: timeout",
                     tokens |-> 0, cost |-> 0])

BothDone == \A p \in Callers : ret[p].pc = "done"

\* the file of caller p's technique holds the whole text of p's record
HoldsRecordOf(p) ==
    files["outputs/" \o DerivedName[op[p].technique] \o "_demo.json"]
        = JsonText(ret[p].demo_data)

\* C17: two concurrent run_demonstration calls for different registered
\* techniques write to different paths, and when both are through each
\* technique's file holds the whole record of its call; calls for the same
\* technique write to one path, both holding it open at once (the
\* interleaving that leaves neither record whole is C17_Witness).
C17_DifferentTechniquesApart ==
    /\ \A p, q \in Callers :
            (ret[p].pc = "open" /\ ret[q].pc = "open" /\ p # q)
            => (RecordPath[op[p].technique] = RecordPath[op[q].technique]
                    <=> op[p].technique = op[q].technique)
    /\ (BothDone /\ op[1].technique # op[2].technique)
            => HoldsRecordOf(1) /\ HoldsRecordOf(2)

\* both calls, for the same technique, are through and the file holds the
\* whole record of neither
C17_Witness ==
    /\ BothDone
    /\ op[1].technique = op[2].technique
    /\ ~HoldsRecordOf(1)
    /\ ~HoldsRecordOf(2)

\* the token count and the cost of an entry of results, 0 for an error entry
EntryTokens(e) == IF "tokens" \in DOMAIN e THEN e.tokens ELSE 0
EntryCost(e) == IF "cost" \in DOMAIN e THEN e.cost ELSE 0

TotalsMatchEntries ==
    LET res == ret.val.results
    IN  /\ ret.val.total_tokens = SumOver(DOMAIN res, [n \in DOMAIN res |-> EntryTokens(res[n])])
        /\ ret.val.total_cost = SumOver(DOMAIN res, [n \in DOMAIN res |-> EntryCost(res[n])])
        /\ ret.val.techniques_compared = Cardinality(DOMAIN res)

\* C18 as stated: for every list of names, also with repeated names,
\* total_tokens and total_cost are the sums over the entries of results and
\* techniques_compared is the number of entries.
C18_Original ==
    IsComparison => TotalsMatchEntries

\* the index in log of the request made for the i-th requested name
RequestIndex(i) ==
    Cardinality({k \in 1..i : Requested[k] \in Comparable})

\* C18, amended: total_tokens and total_cost are the sums over all the
\* invocations made and techniques_compared is the length of the list; a
\* name given more than once is invoked and counted every time, while
\* results keeps the Result of its last invocation only.  For a list
\* without repeated names the totals are the sums over the entries of
\* results and techniques_compared is the number of entries.
C18_TotalsOverInvocations ==
    IsComparison
    => /\ ret.val.techniques_compared = Len(Requested)
       /\ ret.val.total_tokens = UsageSum(log)
       /\ ret.val.total_cost = UsageSum(log)
       /\ \A i \in DOMAIN Requested :
            (/\ Requested[i] \in Comparable
             /\ \A k \in DOMAIN Requested : Requested[k] = Requested[i] => k <= i)
            => LET out == log[RequestIndex(i)][2]
               IN  EntryTokens(ret.val.results[Requested[i]])
                        = IF Succeeded(out) THEN out.usage ELSE 0
       /\ NoDuplicates(Requested) => TotalsMatchEntries

\* Zero-Shot given twice, the requests reporting usage 3 and then 5
C18_Witness ==
    /\ IsComparison
    /\ op.techniques = ListVal(<<"Zero-Shot Prompting", "Zero-Shot Prompting">>)
    /\ Len(log) = 2
    /\ log[1][2].kind = "ok" /\ log[1][2].usage = 3
    /\ log[2][2].kind = "ok" /\ log[2][2].usage = 5
    /\ ret.val.total_tokens = 8
    /\ ret.val.results["Zero-Shot Prompting"].tokens = 5
    /\ ret.val.techniques_compared = 2

\* a whole record is stored for technique t
HasRecord(fs, t) ==
    /\ Stored(fs, t) # <<>>
    /\ DOMAIN Stored(fs, t)[1] = {"technique", "input", "output"}

\* C19: a run_demonstration call for T that fails, also one that fails
\* while its record is written, leaves a record stored for T before the
\* call as it was: the call neither removes nor cuts it.
C19_FailedSaveKeepsRecord ==
    [][(/\ IsDemoStep
        /\ op'.technique \in DOMAIN DerivedName
        /\ ret'.kind = "raise"
        /\ HasRecord(files, op'.technique))
       => Stored(files', op'.technique) = Stored(files, op'.technique)]_vars

====
